---- MODULE Spec2Model ----
(***************************************************************************)
(* The data-fusion and interaction-graph pipeline of XAImusic.             *)
(*                                                                         *)
(* The repository holds two copies of the pipeline: src/pipeline.py and    *)
(* the functions of the same names in src/app.py.  The variable `variant`  *)
(* says which copy runs; where the copies differ an operator takes the     *)
(* variant as its first parameter.                                         *)
(*                                                                         *)
(* Encoding of Python / pandas values:                                     *)
(*   - a DataFrame with fixed columns is a sequence of records (rows);     *)
(*     the track metadata, whose columns vary, is a record                 *)
(*     [columns, rows];                                                    *)
(*   - a dict is a sequence of <<key, value>> pairs in insertion order;    *)
(*   - a missing string is NaN, a missing number or a Python None is the   *)
(*     empty sequence and a present one the one-element sequence;          *)
(*   - weights, moods and feature values are counted in hundredths, so     *)
(*     1.2 is 120 and the products by 1.2 and 0.8 are exact.               *)
(***************************************************************************)
EXTENDS Integers, Sequences, FiniteSets, TLC

VARIABLES variant, raw_data, processed_df, audio_features, fused_features,
          latent_features, graph, recommendations, explanations,
          leaderboard, updates, pc, spotify_file, time_series_file,
          music_app_db, returned

vars == <<variant, raw_data, processed_df, audio_features, fused_features,
          latent_features, graph, recommendations, explanations,
          leaderboard, updates, pc, spotify_file, time_series_file,
          music_app_db, returned>>

\* the two files of a run: spotify_data.csv, which is read, and
\* time_series_data.csv, which is written
files == <<spotify_file, time_series_file>>

\* music_app.db, of which the tables queue, recently_played, playback_state
\* and user_listening_data hold the rows of one user, and what the last
\* call of a playback function returned
app == <<music_app_db, returned>>

(***************************************************************************)
(* Values                                                                  *)
(***************************************************************************)
NaN == "NaN"

None == <<>>

Some(v) == <<v>>

\* the gap, in seconds, above which a new session starts
SessionGap == 300

\* the tolerance of the nearest-timestamp join, in seconds ("1min")
Tolerance == 60

\* the most interactions a run ingests
MaxEvents == 3

\* the most rows of a generated track table
MaxTracks == 2

\* the most dashboard updates a session goes through
MaxUpdates == 2

\* the most context records of a generated context table
MaxContext == 2

\* the most entries of a user's queue
MaxQueue == 3

\* the most tracks started for a user
MaxPlayed == 3

\* the interactions, and the context records, ingest_data generates
\* (num_interactions, 100 in the source)
NumInteractions == 1

SeqsUpTo(S, n) == UNION {[1..k -> S] : k \in 0..n}

Range(s) == {s[i] : i \in DOMAIN s}

RECURSIVE Sum(_)
Sum(s) == IF s = <<>> THEN 0 ELSE Head(s) + Sum(Tail(s))

RECURSIVE Flatten(_)
Flatten(ss) == IF ss = <<>> THEN <<>> ELSE Head(ss) \o Flatten(Tail(ss))

\* the elements of a set of integers in ascending order
RECURSIVE Ascending(_)
Ascending(S) ==
    IF S = {} THEN <<>>
    ELSE LET m == CHOOSE x \in S : \A y \in S : x <= y
         IN <<m>> \o Ascending(S \ {m})

(***************************************************************************)
(* Python dicts: pairs in insertion order; assigning to an existing key    *)
(* keeps the key's position.                                               *)
(***************************************************************************)
DictKeys(d) == [i \in DOMAIN d |-> d[i][1]]

DictHas(d, k) == \E i \in DOMAIN d : d[i][1] = k

DictGet(d, k, default) ==
    IF DictHas(d, k) THEN d[CHOOSE i \in DOMAIN d : d[i][1] = k][2]
    ELSE default

DictSet(d, k, v) ==
    IF DictHas(d, k)
    THEN [i \in DOMAIN d |-> IF d[i][1] = k THEN <<k, v>> ELSE d[i]]
    ELSE Append(d, <<k, v>>)

(***************************************************************************)
(* MODULE 2 of the source: preprocess_data                                 *)
(*                                                                         *)
(* An interaction is [user_id, track_id, action, timestamp]; a context     *)
(* record is [user_id, timestamp, mood] (device and location are carried   *)
(* along by the code and read by nothing); a track row is [track_id,       *)
(* artists, track_name, energy, track_genre], of which only the fields     *)
(* named in the table's columns exist.  The track_id column, when it       *)
(* exists, holds no missing value.                                         *)
(***************************************************************************)
Absent == "absent"

\* DataFrame.dropna() on the interactions and on the context records
dropna_interactions(df) == SelectSeq(df, LAMBDA r : r.action # NaN)

dropna_context(df) == SelectSeq(df, LAMBDA r : r.mood # None)

\* DataFrame.dropna() on the track metadata: only existing columns count
dropna_tracks(df) ==
    [columns |-> df.columns,
     rows |-> SelectSeq(df.rows, LAMBDA r :
                /\ "artists" \in df.columns => r.artists # NaN
                /\ "track_name" \in df.columns => r.track_name # NaN
                /\ "energy" \in df.columns => r.energy # None
                /\ "track_genre" \in df.columns => r.track_genre # NaN)]

\* the columns preprocess_data requires and the placeholder it writes into
\* a column that does not exist: f"Unknown {col.replace('_', ' ').title()}"
required_columns == {"track_id", "artists", "track_name"}

Placeholder(col) ==
    CASE col = "artists" -> "Unknown Artists"
      [] col = "track_name" -> "Unknown Track Name"
      [] OTHER -> "Unknown Track Id"

add_missing_columns(df) ==
    [columns |-> df.columns \cup required_columns,
     rows |-> [i \in DOMAIN df.rows |->
                [df.rows[i] EXCEPT
                   !.artists = IF "artists" \in df.columns THEN @
                               ELSE Placeholder("artists"),
                   !.track_name = IF "track_name" \in df.columns THEN @
                                  ELSE Placeholder("track_name")]]]

\* sort_values('timestamp'): the default sort is not stable, so rows with
\* equal timestamps come out in any order
Perms(n) == {p \in [1..n -> 1..n] : \A i, j \in 1..n : p[i] = p[j] => i = j}

sort_values_timestamp(df) ==
    {[i \in DOMAIN df |-> df[p[i]]] :
        p \in {q \in Perms(Len(df)) :
                 \A i, j \in DOMAIN df :
                     i < j => df[q[i]].timestamp <= df[q[j]].timestamp}}

\* pd.merge_asof(left, right, on='timestamp', by='user_id',
\*               direction='nearest', tolerance=1min); both sides sorted
Backward(l, right) ==
    LET c == {j \in DOMAIN right : /\ right[j].user_id = l.user_id
                                    /\ right[j].timestamp <= l.timestamp}
        j == CHOOSE x \in c : \A y \in c : y <= x
    IN IF c = {} THEN None
       ELSE IF l.timestamp - right[j].timestamp > Tolerance THEN None
       ELSE Some(j)

Forward(l, right) ==
    LET c == {j \in DOMAIN right : /\ right[j].user_id = l.user_id
                                    /\ right[j].timestamp >= l.timestamp}
        j == CHOOSE x \in c : \A y \in c : x <= y
    IN IF c = {} THEN None
       ELSE IF right[j].timestamp - l.timestamp > Tolerance THEN None
       ELSE Some(j)

\* a faulty version that looks forward only when nothing lies backward
Nearest_backward_first(l, right) ==
    LET b == Backward(l, right)
        f == Forward(l, right)
    IN IF b # None THEN b ELSE f

Nearest(l, right) ==
    LET b == Backward(l, right)
        f == Forward(l, right)
    IN IF b # None /\ f # None
       THEN IF l.timestamp - right[b[1]].timestamp
                 <= right[f[1]].timestamp - l.timestamp
            THEN b ELSE f
       ELSE IF b # None THEN b ELSE f

merge_asof(left, right) ==
    [i \in DOMAIN left |->
        LET m == Nearest(left[i], right)
        IN [user_id |-> left[i].user_id, track_id |-> left[i].track_id,
            action |-> left[i].action, timestamp |-> left[i].timestamp,
            mood |-> IF m = None THEN None ELSE right[m[1]].mood]]

\* pd.merge(left, tracks_df[['track_id', 'artists', 'track_name']],
\*          on='track_id', how='left'): the left order is kept, a left row
\* comes once per matching track row, and once with NaN when none matches
MatchingRows(track_id, tracks_df) ==
    SelectSeq(tracks_df.rows, LAMBDA t : t.track_id = track_id)

merge_tracks(left, tracks_df) ==
    Flatten([i \in DOMAIN left |->
        LET ms == MatchingRows(left[i].track_id, tracks_df)
            Joined(artists, track_name) ==
                [user_id |-> left[i].user_id, track_id |-> left[i].track_id,
                 action |-> left[i].action, timestamp |-> left[i].timestamp,
                 mood |-> left[i].mood,
                 artists |-> artists, track_name |-> track_name]
        IN IF ms = <<>> THEN <<Joined(NaN, NaN)>>
           ELSE [k \in DOMAIN ms |->
                    Joined(ms[k].artists, ms[k].track_name)]])

\* merged_df['artists'].fillna('Unknown Artist'), src/pipeline.py only
fillna_artists(df) ==
    [i \in DOMAIN df |->
        [df[i] EXCEPT !.artists = IF @ = NaN THEN "Unknown Artist" ELSE @]]

\* a faulty version that orders the rows by timestamp alone
RowBefore_timestamp(a, b) == a.timestamp < b.timestamp

\* sort_values(['user_id', 'timestamp']): a stable lexicographic sort
RowBefore(a, b) ==
    \/ a.user_id < b.user_id
    \/ a.user_id = b.user_id /\ a.timestamp < b.timestamp

RECURSIVE InsertSorted(_, _)
InsertSorted(s, r) ==
    IF s = <<>> THEN <<r>>
    ELSE IF RowBefore(r, s[Len(s)])
         THEN Append(InsertSorted(SubSeq(s, 1, Len(s) - 1), r), s[Len(s)])
         ELSE Append(s, r)

RECURSIVE sort_values_user_timestamp(_)
sort_values_user_timestamp(df) ==
    IF df = <<>> THEN <<>>
    ELSE InsertSorted(
            sort_values_user_timestamp(SubSeq(df, 1, Len(df) - 1)),
            df[Len(df)])

\* a faulty version that takes the previous row of the table, whoever its user is
PrevOfUser_any(df, i) == IF i = 1 THEN None ELSE Some(i - 1)

\* the previous row of the same user
PrevOfUser(df, i) ==
    LET c == {j \in 1..(i - 1) : df[j].user_id = df[i].user_id}
    IN IF c = {} THEN None ELSE Some(CHOOSE x \in c : \A y \in c : y <= x)

\* a faulty version that counts a user's first gap from time 0
session_diff_from_zero(df) ==
    [i \in DOMAIN df |->
        LET p == PrevOfUser(df, i)
        IN IF p = None THEN df[i].timestamp
           ELSE df[i].timestamp - df[p[1]].timestamp]

\* groupby('user_id')['timestamp'].diff().dt.total_seconds().fillna(0):
\* the gap to the previous row of the same user, 0 for a user's first row
session_diff(df) ==
    [i \in DOMAIN df |->
        LET p == PrevOfUser(df, i)
        IN IF p = None THEN 0 ELSE df[i].timestamp - df[p[1]].timestamp]

\* a faulty version that starts a session at a gap of exactly 300 seconds
NewSession_at_gap(x) == x >= SessionGap

\* x > 300: the gap that starts a new session
NewSession(x) == x > SessionGap

\* (x > 300).cumsum() over the rows of one group
RECURSIVE CumSumOver(_)
CumSumOver(x) ==
    IF x = <<>> THEN <<>>
    ELSE LET before == CumSumOver(SubSeq(x, 1, Len(x) - 1))
             last == IF before = <<>> THEN 0 ELSE before[Len(before)]
         IN Append(before,
                   last + (IF NewSession(x[Len(x)]) THEN 1 ELSE 0))

\* groupby('user_id')['session_diff'].apply(...).reset_index(drop=True):
\* the groups' results, one group after the other in ascending user_id,
\* renumbered 0..n-1 and then assigned to the rows by position
GroupOf(df, diffs, u) ==
    LET idx == SelectSeq([i \in DOMAIN df |-> i],
                         LAMBDA i : df[i].user_id = u)
    IN [k \in DOMAIN idx |-> diffs[idx[k]]]

session_ids(df, diffs) ==
    LET users == Ascending({df[i].user_id : i \in DOMAIN df})
    IN Flatten([g \in DOMAIN users |->
                  CumSumOver(GroupOf(df, diffs, users[g]))])

add_sessions(df) ==
    LET diffs == session_diff(df)
        ids == session_ids(df, diffs)
    IN [i \in DOMAIN df |->
         [user_id |-> df[i].user_id, track_id |-> df[i].track_id,
          action |-> df[i].action, timestamp |-> df[i].timestamp,
          mood |-> df[i].mood, artists |-> df[i].artists,
          track_name |-> df[i].track_name,
          session_diff |-> diffs[i], session_id |-> ids[i],
          track_genre |-> Absent]]

\* the second join of src/app.py, on 'track_genre' (or 'genre', renamed)
merge_genre(df, tracks_df) ==
    Flatten([i \in DOMAIN df |->
        LET ms == MatchingRows(df[i].track_id, tracks_df)
        IN IF ms = <<>> THEN <<[df[i] EXCEPT !.track_genre = NaN]>>
           ELSE [k \in DOMAIN ms |->
                    [df[i] EXCEPT !.track_genre = ms[k].track_genre]]])

\* line 154 of src/pipeline.py reads tracks_df['artists'] before the check
\* for missing columns: a KeyError when the column does not exist
preprocess_raises(v, raw) ==
    v = "pipeline" /\ "artists" \notin raw.tracks.columns

\* the table preprocess_data returns, for the sorted inputs it was given
preprocess_data(v, sorted_interactions, sorted_context, raw) ==
    LET tracks_df == add_missing_columns(dropna_tracks(raw.tracks))
        merged == merge_tracks(merge_asof(sorted_interactions,
                                          sorted_context), tracks_df)
        filled == IF v = "pipeline" THEN fillna_artists(merged) ELSE merged
        sessions == add_sessions(sort_values_user_timestamp(filled))
    IN IF v = "app" /\ "track_genre" \in tracks_df.columns
       THEN merge_genre(sessions, tracks_df)
       ELSE sessions

(***************************************************************************)
(* MODULE 4 of the source: features, graph, recommendations, explanations  *)
(***************************************************************************)
\* extract_audio_features: one entry per row of the raw metadata, keyed by
\* track_id, holding the feature columns that exist ('energy' stands for
\* the eleven feature columns); a repeated track_id keeps its first place
RECURSIVE extract_audio_features(_)
extract_audio_features(track_metadata) ==
    IF track_metadata.rows = <<>> THEN <<>>
    ELSE LET n == Len(track_metadata.rows)
             row == track_metadata.rows[n]
             features == IF "energy" \in track_metadata.columns
                         THEN <<(<<"energy", row.energy>>)>> ELSE <<>>
         IN DictSet(extract_audio_features(
                        [track_metadata EXCEPT
                            !.rows = SubSeq(track_metadata.rows, 1, n - 1)]),
                    row.track_id, features)

\* a faulty version that takes the mood of the first record
avg_mood_first(context_df) ==
    LET present == SelectSeq(context_df, LAMBDA r : r.mood # None)
    IN IF context_df = <<>> THEN Some(50)
       ELSE IF present = <<>> THEN None
       ELSE present[1].mood

\* context_df['mood'].mean() if not context_df.empty else 0.5; the mean
\* skips missing moods and is missing when every mood is
avg_mood(context_df) ==
    LET present == SelectSeq(context_df, LAMBDA r : r.mood # None)
    IN IF context_df = <<>> THEN Some(50)
       ELSE IF present = <<>> THEN None
       ELSE Some(Sum([i \in DOMAIN present |-> present[i].mood[1]])
                   \div Len(present))

fuse_features(features_by_track, context_df) ==
    [i \in DOMAIN features_by_track |->
        <<features_by_track[i][1],
          DictSet(features_by_track[i][2], "mood_factor",
                  avg_mood(context_df))>>]

\* a faulty version that leaves mood_factor as it is
extract_latent_features_features_only(fused) ==
    [i \in DOMAIN fused |->
        <<fused[i][1],
          [k \in DOMAIN fused[i][2] |->
              <<fused[i][2][k][1],
                IF fused[i][2][k][2] = None THEN None
                ELSE IF fused[i][2][k][1] = "mood_factor"
                THEN fused[i][2][k][2]
                ELSE Some((fused[i][2][k][2][1] * 8) \div 10)>>]>>]

\* v * 0.8 for every feature; a missing value stays missing
extract_latent_features(fused) ==
    [i \in DOMAIN fused |->
        <<fused[i][1],
          [k \in DOMAIN fused[i][2] |->
              <<fused[i][2][k][1],
                IF fused[i][2][k][2] = None THEN None
                ELSE Some((fused[i][2][k][2][1] * 8) \div 10)>>]>>]

\* a faulty version that gives an unknown action no weight
ActionWeight_strict(action) ==
    CASE action = "play" -> 100
      [] action = "skip" -> 50
      [] action = "like" -> 150
      [] action = "playlist_add" -> 120
      [] OTHER -> 0

\* the weight of an action, in hundredths
ActionWeight(action) ==
    CASE action = "play" -> 100
      [] action = "skip" -> 50
      [] action = "like" -> 150
      [] action = "playlist_add" -> 120
      [] OTHER -> 100

\* a faulty version that adds 0.2 instead of multiplying by 1.2
apply_graph_models_add(edges) ==
    [i \in DOMAIN edges |-> <<edges[i][1], edges[i][2], edges[i][3] + 20>>]

\* adjusted_weight = weight * 1.2 for every edge, in the edges' order
apply_graph_models(edges) ==
    [i \in DOMAIN edges |->
        <<edges[i][1], edges[i][2], (edges[i][3] * 12) \div 10>>]

\* dict(zip(track_metadata['track_id'], track_metadata['artists'])): the
\* last row of a repeated track_id gives the artist
RECURSIVE zip_track_artist(_)
zip_track_artist(rows) ==
    IF rows = <<>> THEN <<>>
    ELSE DictSet(zip_track_artist(SubSeq(rows, 1, Len(rows) - 1)),
                 rows[Len(rows)].track_id, rows[Len(rows)].artists)

\* track_metadata['track_id'] or ['artists'] of a table without the column
build_graph_raises(track_metadata) ==
    ~ ({"track_id", "artists"} \subseteq track_metadata.columns)

\* a faulty version that takes the track nodes from the metadata
build_interaction_graph_metadata_nodes(df, fused, track_metadata) ==
    LET edges == [i \in DOMAIN df |->
                    <<df[i].user_id, df[i].track_id,
                      ActionWeight(df[i].action)>>]
    IN [nodes |-> [users |-> {df[i].user_id : i \in DOMAIN df},
                   tracks |-> {track_metadata.rows[i].track_id :
                                  i \in DOMAIN track_metadata.rows},
                   artists |-> {df[i].artists : i \in DOMAIN df}],
        edges |-> edges,
        weighted_edges |-> apply_graph_models(edges),
        track_to_artist |-> zip_track_artist(track_metadata.rows)]

\* a faulty version that maps the tracks of the processed rows
build_interaction_graph_rows_artist(df, fused, track_metadata) ==
    LET edges == [i \in DOMAIN df |->
                    <<df[i].user_id, df[i].track_id,
                      ActionWeight(df[i].action)>>]
    IN [nodes |-> [users |-> {df[i].user_id : i \in DOMAIN df},
                   tracks |-> {df[i].track_id : i \in DOMAIN df},
                   artists |-> {df[i].artists : i \in DOMAIN df}],
        edges |-> edges,
        weighted_edges |-> apply_graph_models(edges),
        track_to_artist |-> zip_track_artist(df)]

build_interaction_graph(df, fused, track_metadata) ==
    LET edges == [i \in DOMAIN df |->
                    <<df[i].user_id, df[i].track_id,
                      ActionWeight(df[i].action)>>]
    IN [nodes |-> [users |-> {df[i].user_id : i \in DOMAIN df},
                   tracks |-> {df[i].track_id : i \in DOMAIN df},
                   artists |-> {df[i].artists : i \in DOMAIN df}],
        edges |-> edges,
        weighted_edges |-> apply_graph_models(edges),
        track_to_artist |-> zip_track_artist(track_metadata.rows)]

\* a faulty version that leaves the users out when there is no track
adaptive_recommendations_skip(v, g, latent) ==
    LET track_ids == DictKeys(latent)
    IN IF track_ids = <<>> THEN {<<>>}
       ELSE IF v = "pipeline"
            THEN {[u \in g.nodes.users |-> Some(track_ids[1])]}
            ELSE [g.nodes.users -> {Some(t) : t \in Range(track_ids)}]

\* a faulty version that recommends among the tracks of the graph
adaptive_recommendations_seen(v, g, latent) ==
    IF g.nodes.tracks = {} THEN {[u \in g.nodes.users |-> None]}
    ELSE [g.nodes.users -> {Some(t) : t \in g.nodes.tracks}]

\* adaptive_recommendations: every user of the graph gets None when there
\* is no track; otherwise the first track (src/pipeline.py) or a track of
\* random.choice (src/app.py).  The set of the maps a call can return.
adaptive_recommendations(v, g, latent) ==
    LET track_ids == DictKeys(latent)
    IN IF track_ids = <<>> THEN {[u \in g.nodes.users |-> None]}
       ELSE IF v = "pipeline"
            THEN {[u \in g.nodes.users |-> Some(track_ids[1])]}
            ELSE [g.nodes.users -> {Some(t) : t \in Range(track_ids)}]

\* Python truth of a recommended track: None and 0 are false
Truthy(track) == track # None /\ track[1] # 0

\* generate_explanations: src/pipeline.py formats a sentence for every
\* entry of the map; src/app.py only for the entries whose track is truthy.
\* An explanation is kept as what it is built from: the user and the track
\* (src/pipeline.py) or the track and its artist (src/app.py, whose wording
\* is drawn at random from fixed lists).
generate_explanations(v, recs, g) ==
    IF v = "pipeline"
    THEN [u \in DOMAIN recs |-> [user |-> u, track |-> recs[u]]]
    ELSE [u \in {x \in DOMAIN recs : Truthy(recs[x])} |->
            [track |-> recs[u],
             artist |-> DictGet(g.track_to_artist, recs[u][1],
                                "Unknown Artist")]]

(***************************************************************************)
(* MODULE 5 of the source: the leaderboard                                 *)
(***************************************************************************)
\* a faulty version that keeps the last weight of an artist
Accumulate_overwrite(scores, artist, weight) == DictSet(scores, artist, weight)

\* artist_scores[artist] = artist_scores.get(artist, 0) + weight
Accumulate(scores, artist, weight) ==
    DictSet(scores, artist, DictGet(scores, artist, 0) + weight)

\* the loop of compute_leaderboard: artist_scores after the given edges
RECURSIVE artist_scores(_, _)
artist_scores(weighted, track_to_artist) ==
    IF weighted = <<>> THEN <<>>
    ELSE LET n == Len(weighted)
             before == artist_scores(SubSeq(weighted, 1, n - 1),
                                     track_to_artist)
             artist == DictGet(track_to_artist, weighted[n][2],
                               "Unknown Artist")
         IN Accumulate(before, artist, weighted[n][3])

\* a faulty version that puts an item before the items of equal score
Outranks_ties(item, other) == other[2] <= item[2]

\* sorted(items, key=lambda x: x[1], reverse=True): stable, so an item goes
\* after every item whose score is at least its own
Outranks(item, other) == other[2] < item[2]

RECURSIVE InsertByScore(_, _)
InsertByScore(s, r) ==
    IF s = <<>> THEN <<r>>
    ELSE IF Outranks(r, s[Len(s)])
         THEN Append(InsertByScore(SubSeq(s, 1, Len(s) - 1), r), s[Len(s)])
         ELSE Append(s, r)

RECURSIVE sorted_by_score(_)
sorted_by_score(items) ==
    IF items = <<>> THEN <<>>
    ELSE InsertByScore(sorted_by_score(SubSeq(items, 1, Len(items) - 1)),
                       items[Len(items)])

\* a faulty version that leaves the tracks without a known artist out
compute_leaderboard_known(g) ==
    sorted_by_score(
        SelectSeq(artist_scores(g.weighted_edges, g.track_to_artist),
                  LAMBDA item : item[1] # "Unknown Artist"))

compute_leaderboard(g) ==
    sorted_by_score(artist_scores(g.weighted_edges, g.track_to_artist))

(***************************************************************************)
(* The inputs of a run: what ingest_data hands to the pipeline.            *)
(* Four families keep the state space small, each varying what one part    *)
(* of the pipeline reads.                                                  *)
(***************************************************************************)
Ev(u, t, a, ts) == [user_id |-> u, track_id |-> t, action |-> a,
                    timestamp |-> ts]

Ctx(u, ts, m) == [user_id |-> u, timestamp |-> ts, mood |-> m]

Tr(t, a) == [track_id |-> t, artists |-> a, track_name |-> "X",
             energy |-> Some(50), track_genre |-> Absent]

FullColumns == {"track_id", "artists", "track_name", "energy"}

Table(rows) == [columns |-> FullColumns, rows |-> rows]

\* the same table with a track_genre column
GenreTable(rows) ==
    [columns |-> FullColumns \cup {"track_genre"},
     rows |-> [i \in DOMAIN rows |-> [rows[i] EXCEPT !.track_genre = "pop"]]]

\* pd.DataFrame(): what load_spotify_track_metadata returns on a failure
NoTable == [columns |-> {}, rows |-> <<>>]

Actions == {"play", "skip", "like", "playlist_add", "share"}

(***************************************************************************)
(* MODULE 1 of the source: ingest_data                                     *)
(*                                                                         *)
(* spotify_file is [readable, table]: the table pd.read_csv returns, or a  *)
(* file that is missing or cannot be parsed.  Timestamps count seconds     *)
(* from the start of the 24 hours that end at now.                         *)
(***************************************************************************)
\* load_spotify_track_metadata: the table, or pd.DataFrame() on any error
load_spotify_track_metadata(file) ==
    IF file.readable THEN file.table ELSE NoTable

\* a faulty version that starts the default range at 0
ingest_track_ids_from_zero(track_metadata) ==
    IF track_metadata.rows # <<>> /\ "track_id" \in track_metadata.columns
    THEN [i \in DOMAIN track_metadata.rows |->
            track_metadata.rows[i].track_id]
    ELSE [i \in 1..100 |-> i - 1]

\* the track ids ingest_data draws from: the metadata's track_id column
\* when the table is not empty and has one, else list(range(1, 101))
ingest_track_ids(track_metadata) ==
    IF track_metadata.rows # <<>> /\ "track_id" \in track_metadata.columns
    THEN [i \in DOMAIN track_metadata.rows |->
            track_metadata.rows[i].track_id]
    ELSE [i \in 1..100 |-> i]

\* the actions simulate_user_interactions draws from
actions == <<"play", "skip", "like", "playlist_add">>

\* one generated interaction: a user of 1..10, a track of track_ids, an
\* action, and a timestamp of the last 24 hours (here user 1 now on the
\* first track, or user 10 24 hours ago on the last one)
InteractionDraws(track_ids) ==
    {Ev(d[1], track_ids[d[3]], a, 86400 - d[2]) :
        d \in {<<1, 0, 1>>, <<10, 86400, Len(track_ids)>>},
        a \in Range(actions)}

simulate_user_interactions(num_entries, track_ids) ==
    [1..num_entries -> InteractionDraws(track_ids)]

\* one generated context record: a user of 1..10, a timestamp of the last
\* 24 hours and a mood of [0, 1]
ContextDraws == {Ctx(1, 86400, Some(20)), Ctx(10, 0, Some(80))}

simulate_contextual_data(num_entries) == [1..num_entries -> ContextDraws]

\* what ingest_data returns for a metadata table: the set of the possible
\* raw_data
ingest_data(track_metadata) ==
    {[interactions |-> i, context |-> c, tracks |-> track_metadata] :
        i \in simulate_user_interactions(NumInteractions,
                                         ingest_track_ids(track_metadata)),
        c \in simulate_contextual_data(NumInteractions)}

\* timestamps around the session gap: gaps of 300, 301 and 601
SessionTimes == {0, 300, 601}

\* distinct, unsorted timestamps for the i-th interaction
Stamp(i) == 1000 * ((2 * i) % 5)

NonEmptySeqs(S, n) == UNION {[1..k -> S] : k \in 1..n}

Stamped(s) == [i \in DOMAIN s |-> Ev(s[i][1], s[i][2], s[i][3], Stamp(i))]

Raw(interactions, context, tracks) ==
    [interactions |-> interactions, context |-> context, tracks |-> tracks]

SomeContext == <<Ctx(1, 360, Some(20)), Ctx(2, 0, Some(80)),
                 Ctx(1, 240, None), Ctx(1, 30, Some(80))>>

SessionInputs ==
    {Raw(i, SomeContext, t) :
        i \in NonEmptySeqs({Ev(u, 1, "play", ts) :
                               u \in {1, 2}, ts \in SessionTimes}, MaxEvents),
        t \in {GenreTable(<<Tr(1, "A"), Tr(1, "B")>>), NoTable}}

\* the i-th interaction is of user and track 1 + (i % 2)
WeightInputs ==
    {Raw(Stamped([k \in DOMAIN i |-> <<1 + (k % 2), 1 + (k % 2), i[k]>>]),
         <<>>, Table(<<Tr(1, "A"), Tr(2, "B")>>)) :
        i \in NonEmptySeqs(Actions, MaxEvents)}

BoardTables ==
    {Table(<<Tr(2, "B"), Tr(1, "A"), Tr(3, "A")>>),
     Table(<<Tr(1, "A"), Tr(1, "B")>>),
     Table(<<Tr(1, NaN), Tr(2, "B")>>)}

BoardInputs ==
    {Raw(Stamped(i), <<>>, t) :
        i \in NonEmptySeqs({1} \X {1, 2, 3} \X {"play", "skip"}, MaxEvents),
        t \in BoardTables}

TrackRows == {Tr(t, a) : t \in {1, 2}, a \in {"A", "B", NaN}}

TableInputs ==
    {Raw(i, <<Ctx(1, 0, Some(20))>>, Table(t)) :
        i \in {<<Ev(1, 1, "play", 0), Ev(2, 2, "like", 0)>>,
               <<Ev(2, 2, "skip", 500), Ev(1, 1, "like", 0),
                 Ev(1, 2, "play", 200)>>},
        t \in SeqsUpTo(TrackRows, MaxTracks)}

\* context records around an interaction of user 1 at 100: 60 s and 10 s
\* before, 10 s and 61 s after, one of user 2 and one without a mood at 100
ContextRecords ==
    {Ctx(1, 40, Some(20)), Ctx(1, 90, Some(20)), Ctx(1, 110, Some(80)),
     Ctx(1, 161, Some(80)), Ctx(2, 100, Some(50)), Ctx(1, 100, None)}

ContextInputs ==
    {Raw(<<Ev(1, 1, "play", 100), Ev(2, 2, NaN, 100), Ev(2, 1, "like", 130)>>,
         c, Table(<<Tr(1, "A"), Tr(2, "B")>>)) :
        c \in SeqsUpTo(ContextRecords, MaxContext)}

\* a table that lacks one column
WithoutColumn(col, rows) ==
    [columns |-> FullColumns \ {col},
     rows |-> [i \in DOMAIN rows |-> [rows[i] EXCEPT ![col] = Absent]]]

ColumnInputs ==
    {Raw(<<Ev(1, 1, "play", 0), Ev(2, 3, "like", 0)>>, <<>>,
         WithoutColumn(col, <<Tr(1, "A"), Tr(2, "B")>>)) :
        col \in {"artists", "track_name"}}

\* one track, one interaction on it, one context record of its user at the
\* same time
EndToEndInputs ==
    {Raw(<<Ev(7, 1, a, 1000)>>, <<Ctx(7, 1000, Some(50))>>,
         Table(<<Tr(1, "A")>>)) : a \in Actions}

RawInputs == SessionInputs \cup WeightInputs \cup BoardInputs
                 \cup TableInputs \cup ContextInputs \cup ColumnInputs
                 \cup EndToEndInputs

(***************************************************************************)
(* The run: main of src/pipeline.py, load_ml_data of src/app.py            *)
(***************************************************************************)
NoGraph == [nodes |-> [users |-> {}, tracks |-> {}, artists |-> {}],
            edges |-> <<>>, weighted_edges |-> <<>>,
            track_to_artist |-> <<>>]

\* the files spotify_data.csv can be: missing, a header without rows, a
\* table of two tracks
SpotifyFiles ==
    {[readable |-> FALSE, table |-> NoTable],
     [readable |-> TRUE, table |-> Table(<<>>)],
     [readable |-> TRUE, table |-> Table(<<Tr(1, "A"), Tr(2, "B")>>)]}

NoData == Raw(<<>>, <<>>, NoTable)

\* the tables as init_db creates them: no rows
NoRows ==
    [queue |-> <<>>, recently_played |-> <<>>,
     playback_state |-> [present |-> FALSE, current_track |-> None,
                         is_playing |-> FALSE, shuffle |-> FALSE],
     user_listening_data |-> <<>>]

NoCall == [op |-> "none", ok |-> TRUE]

\* a run starts at ingest_data (pc = "start"), or at preprocess_data with
\* raw data some caller hands over (pc = "ingested")
Init ==
    /\ variant \in {"pipeline", "app"}
    /\ \/ /\ pc = "start"
          /\ raw_data = NoData
          /\ spotify_file \in SpotifyFiles
          /\ time_series_file = "absent"
       \/ /\ pc = "ingested"
          /\ raw_data \in RawInputs
          /\ spotify_file = [readable |-> raw_data.tracks # NoTable,
                             table |-> raw_data.tracks]
          /\ time_series_file = "written"
    /\ processed_df = <<>>
    /\ audio_features = <<>>
    /\ fused_features = <<>>
    /\ latent_features = <<>>
    /\ graph = NoGraph
    /\ recommendations = <<>>
    /\ explanations = <<>>
    /\ leaderboard = <<>>
    /\ updates = 0
    /\ music_app_db = NoRows
    /\ returned = NoCall

\* ingest_data: load, generate, persist, return
IngestData ==
    /\ pc = "start"
    /\ raw_data' \in ingest_data(load_spotify_track_metadata(spotify_file))
    /\ time_series_file' = "written"
    /\ pc' = "ingested"
    /\ UNCHANGED app
    /\ UNCHANGED <<variant, processed_df, audio_features, fused_features,
                   latent_features, graph, recommendations, explanations,
                   leaderboard, updates, spotify_file>>

\* persist_time_series_data raises when df.to_csv cannot write; ingest_data
\* does not catch it and returns nothing
IngestDataFails ==
    /\ pc = "start"
    /\ time_series_file' = "failed"
    /\ pc' = "error"
    /\ UNCHANGED app
    /\ UNCHANGED <<variant, raw_data, processed_df, audio_features,
                   fused_features, latent_features, graph, recommendations,
                   explanations, leaderboard, updates, spotify_file>>

Preprocess ==
    /\ pc = "ingested"
    /\ ~ preprocess_raises(variant, raw_data)
    /\ \E i \in sort_values_timestamp(dropna_interactions(
                                          raw_data.interactions)),
          c \in sort_values_timestamp(dropna_context(raw_data.context)) :
          processed_df' = preprocess_data(variant, i, c, raw_data)
    /\ pc' = "preprocessed"
    /\ UNCHANGED files
    /\ UNCHANGED app
    /\ UNCHANGED <<variant, raw_data, audio_features, fused_features,
                   latent_features, graph, recommendations, explanations,
                   leaderboard, updates>>

PreprocessFails ==
    /\ pc = "ingested"
    /\ preprocess_raises(variant, raw_data)
    /\ pc' = "error"
    /\ UNCHANGED files
    /\ UNCHANGED app
    /\ UNCHANGED <<variant, raw_data, processed_df, audio_features,
                   fused_features, latent_features, graph, recommendations,
                   explanations, leaderboard, updates>>

ExtractAudioFeatures ==
    /\ pc = "preprocessed"
    /\ audio_features' = extract_audio_features(raw_data.tracks)
    /\ pc' = "audio"
    /\ UNCHANGED files
    /\ UNCHANGED app
    /\ UNCHANGED <<variant, raw_data, processed_df, fused_features,
                   latent_features, graph, recommendations, explanations,
                   leaderboard, updates>>

FuseFeatures ==
    /\ pc = "audio"
    /\ fused_features' = fuse_features(audio_features, raw_data.context)
    /\ pc' = "fused"
    /\ UNCHANGED files
    /\ UNCHANGED app
    /\ UNCHANGED <<variant, raw_data, processed_df, audio_features,
                   latent_features, graph, recommendations, explanations,
                   leaderboard, updates>>

ExtractLatentFeatures ==
    /\ pc = "fused"
    /\ latent_features' = extract_latent_features(fused_features)
    /\ pc' = "latent"
    /\ UNCHANGED files
    /\ UNCHANGED app
    /\ UNCHANGED <<variant, raw_data, processed_df, audio_features,
                   fused_features, graph, recommendations, explanations,
                   leaderboard, updates>>

\* the graph is built after the latent features of a run and, again from
\* the same table and metadata, whenever the graph stage is repeated
BuildInteractionGraph ==
    /\ pc \in {"latent", "dashboard"}
    /\ updates < MaxUpdates
    /\ ~ build_graph_raises(raw_data.tracks)
    /\ graph' = build_interaction_graph(processed_df, fused_features,
                                        raw_data.tracks)
    /\ recommendations' = <<>>
    /\ explanations' = <<>>
    /\ pc' = "graph"
    /\ UNCHANGED files
    /\ UNCHANGED app
    /\ UNCHANGED <<variant, raw_data, processed_df, audio_features,
                   fused_features, latent_features, leaderboard, updates>>

BuildInteractionGraphFails ==
    /\ pc = "latent"
    /\ build_graph_raises(raw_data.tracks)
    /\ pc' = "error"
    /\ UNCHANGED files
    /\ UNCHANGED app
    /\ UNCHANGED <<variant, raw_data, processed_df, audio_features,
                   fused_features, latent_features, graph, recommendations,
                   explanations, leaderboard, updates>>

AdaptiveRecommendations ==
    /\ pc = "graph"
    /\ recommendations' \in adaptive_recommendations(variant, graph,
                                                     latent_features)
    /\ pc' = "recommended"
    /\ UNCHANGED files
    /\ UNCHANGED app
    /\ UNCHANGED <<variant, raw_data, processed_df, audio_features,
                   fused_features, latent_features, graph, explanations,
                   leaderboard, updates>>

\* a faulty version that takes the users it explains out of the graph
GenerateExplanations_consuming ==
    /\ pc = "recommended"
    /\ explanations' = generate_explanations(variant, recommendations, graph)
    /\ graph' = [graph EXCEPT !.nodes.users = {}]
    /\ pc' = "explained"
    /\ UNCHANGED files
    /\ UNCHANGED app
    /\ UNCHANGED <<variant, raw_data, processed_df, audio_features,
                   fused_features, latent_features, recommendations,
                   leaderboard, updates>>

\* generate_explanations reads the graph
GenerateExplanations ==
    /\ pc = "recommended"
    /\ explanations' = generate_explanations(variant, recommendations, graph)
    /\ pc' = "explained"
    /\ UNCHANGED files
    /\ UNCHANGED app
    /\ UNCHANGED <<variant, raw_data, processed_df, audio_features,
                   fused_features, latent_features, graph, recommendations,
                   leaderboard, updates>>

\* a faulty version that adjusts the graph's weights in place on every call
UpdateDashboard_in_place ==
    /\ pc \in {"explained", "dashboard"}
    /\ updates < MaxUpdates
    /\ leaderboard' = compute_leaderboard(graph)
    /\ graph' = [graph EXCEPT
                    !.weighted_edges = apply_graph_models(@)]
    /\ updates' = updates + 1
    /\ pc' = "dashboard"
    /\ UNCHANGED files
    /\ UNCHANGED app
    /\ UNCHANGED <<variant, raw_data, processed_df, audio_features,
                   fused_features, latent_features, recommendations,
                   explanations>>

\* update_dashboard: the leaderboard of the graph, computed on every call;
\* updates counts the calls
UpdateDashboard ==
    /\ pc \in {"explained", "dashboard"}
    /\ updates < MaxUpdates
    /\ leaderboard' = compute_leaderboard(graph)
    /\ updates' = updates + 1
    /\ pc' = "dashboard"
    /\ UNCHANGED files
    /\ UNCHANGED app
    /\ UNCHANGED <<variant, raw_data, processed_df, audio_features,
                   fused_features, latent_features, graph, recommendations,
                   explanations>>

Next ==
    \/ IngestData
    \/ IngestDataFails
    \/ Preprocess
    \/ PreprocessFails
    \/ ExtractAudioFeatures
    \/ FuseFeatures
    \/ ExtractLatentFeatures
    \/ BuildInteractionGraph
    \/ BuildInteractionGraphFails
    \/ AdaptiveRecommendations
    \/ GenerateExplanations
    \/ UpdateDashboard

Spec == Init /\ [][Next]_vars

(***************************************************************************)
(* load_ml_data_for_user of src/app.py: the pipeline of the general data,  *)
(* then the user's rows of user_listening_data put before the processed    *)
(* table, and the graph of both.                                           *)
(***************************************************************************)
\* the user_id of a row that has none: user_df has the columns track_id,
\* action and timestamp, and pd.concat fills user_id with NaN (real users
\* are numbered from 1)
NaNUser == 0

\* pd.merge(user_df, track_metadata[['track_id', 'artists', 'track_name']],
\*          on='track_id', how='left'), with the columns concat adds
user_processed(user_interactions, track_metadata) ==
    Flatten([i \in DOMAIN user_interactions |->
        LET ms == MatchingRows(user_interactions[i].track_id, track_metadata)
            Joined(artists, track_name) ==
                [user_id |-> NaNUser,
                 track_id |-> user_interactions[i].track_id,
                 action |-> user_interactions[i].action,
                 timestamp |-> None, mood |-> None,
                 artists |-> artists, track_name |-> track_name,
                 session_diff |-> None, session_id |-> None,
                 track_genre |-> Absent]
        IN IF ms = <<>> THEN <<Joined(NaN, NaN)>>
           ELSE [k \in DOMAIN ms |->
                    Joined(ms[k].artists, ms[k].track_name)]])

\* drop_duplicates(subset=['track_id', 'action'], keep='first')
drop_duplicates(df) ==
    Flatten([i \in DOMAIN df |->
        IF \E j \in 1..(i - 1) : /\ df[j].track_id = df[i].track_id
                                  /\ df[j].action = df[i].action
        THEN <<>> ELSE <<df[i]>>])

\* pd.concat([user_processed, processed_data]).drop_duplicates(...) when the
\* user has rows, else processed_data
combined_df(user_interactions, processed_data, track_metadata) ==
    IF user_interactions # <<>>
    THEN drop_duplicates(user_processed(user_interactions, track_metadata)
                             \o processed_data)
    ELSE processed_data

\* the rows of user_listening_data a user can have
UserRows ==
    {[track_id |-> 1, action |-> "play"], [track_id |-> 2, action |-> "like"],
     [track_id |-> 2, action |-> "play"]}

\* the general data of a call: interactions of two users on two tracks
UserInputs ==
    {Raw(i, <<>>, Table(<<Tr(1, "A"), Tr(2, "B")>>)) :
        i \in {<<Ev(1, 1, "play", 0), Ev(2, 1, "play", 100),
                 Ev(2, 2, "like", 200)>>,
               <<Ev(1, 1, "play", 0), Ev(2, 2, "skip", 100)>>,
               <<Ev(1, 2, "like", 0)>>}}

UserInit ==
    /\ variant = "app"
    /\ pc = "ingested"
    /\ raw_data \in UserInputs
    /\ spotify_file = [readable |-> TRUE, table |-> raw_data.tracks]
    /\ time_series_file = "written"
    /\ processed_df = <<>>
    /\ audio_features = <<>>
    /\ fused_features = <<>>
    /\ latent_features = <<>>
    /\ graph = NoGraph
    /\ recommendations = <<>>
    /\ explanations = <<>>
    /\ leaderboard = <<>>
    /\ updates = 0
    /\ music_app_db \in
          {[NoRows EXCEPT !.user_listening_data = d] :
              d \in SeqsUpTo(UserRows, MaxEvents)}
    /\ returned = NoCall

\* the graph of the combined table
BuildForUser ==
    /\ pc = "latent"
    /\ graph' = build_interaction_graph(
                    combined_df(music_app_db.user_listening_data,
                                processed_df, raw_data.tracks),
                    fused_features, raw_data.tracks)
    /\ pc' = "graph"
    /\ UNCHANGED files
    /\ UNCHANGED app
    /\ UNCHANGED <<variant, raw_data, processed_df, audio_features,
                   fused_features, latent_features, recommendations,
                   explanations, leaderboard, updates>>

UserNext ==
    \/ Preprocess
    \/ ExtractAudioFeatures
    \/ FuseFeatures
    \/ ExtractLatentFeatures
    \/ BuildForUser
    \/ AdaptiveRecommendations
    \/ GenerateExplanations

UserSpec == UserInit /\ [][UserNext]_vars

(***************************************************************************)
(* The playback functions of src/app.py, for one user.  A table is the     *)
(* sequence of its rows in rowid order; played_at has the resolution of a  *)
(* second, so two rows can carry the same one.                             *)
(***************************************************************************)
QueueTracks == {1, 2}

\* get_playback_state inserts the user's playback_state row when there is
\* none; the row has the defaults the function reports without it
get_playback_state(db) == [db EXCEPT !.playback_state.present = TRUE]

\* ORDER BY position: the queue's rows by ascending position, rows of equal
\* position in any order
QueueOrders(queue) ==
    {p \in Perms(Len(queue)) :
        \A i, j \in DOMAIN queue :
            i < j => queue[p[i]].position <= queue[p[j]].position}

\* ORDER BY played_at DESC: the rows that can come first
MostRecent(recently_played) ==
    {i \in DOMAIN recently_played :
        \A j \in DOMAIN recently_played :
            recently_played[j].played_at <= recently_played[i].played_at}

\* CURRENT_TIMESTAMP of an insertion: the second of the last insertion or a
\* later one
Nows(db) ==
    LET n == Len(db.recently_played)
        last == IF n = 0 THEN 0 ELSE db.recently_played[n].played_at
    IN {last, last + 1}

\* update_playback_state: UPDATE ... WHERE user_id = ?, no row no effect
update_playback_state(db, track_id) ==
    IF db.playback_state.present
    THEN [db EXCEPT !.playback_state.current_track = Some(track_id),
                    !.playback_state.is_playing = TRUE]
    ELSE db

\* start_playback with a track: a row of recently_played, a row of
\* user_listening_data, and the playback state
start_playback(db, track_id, now) ==
    update_playback_state(
        [db EXCEPT
            !.recently_played =
                Append(@, [track_id |-> track_id, played_at |-> now]),
            !.user_listening_data =
                Append(@, [track_id |-> track_id, action |-> "play"])],
        track_id)

\* DELETE FROM queue WHERE user_id = ? AND track_id = ?
delete_from_queue(queue, track_id) ==
    SelectSeq(queue, LAMBDA r : r.track_id # track_id)

\* UPDATE queue SET position = position - 1 WHERE ... position > 0
reorder_queue(queue) ==
    [i \in DOMAIN queue |->
        IF queue[i].position > 0
        THEN [queue[i] EXCEPT !.position = @ - 1] ELSE queue[i]]

\* UPDATE queue SET position = position + 1, then the INSERT at position 0
push_front(queue, track_id) ==
    Append([i \in DOMAIN queue |-> [queue[i] EXCEPT !.position = @ + 1]],
           [track_id |-> track_id, position |-> 0])

\* SELECT MAX(position), None taken as -1, and the INSERT at the next one
push_back(queue, track_id) ==
    LET max_position ==
            IF queue = <<>> THEN -1
            ELSE CHOOSE m \in {queue[i].position : i \in DOMAIN queue} :
                    \A i \in DOMAIN queue : queue[i].position <= m
    IN Append(queue, [track_id |-> track_id, position |-> max_position + 1])

QueueInit ==
    /\ variant = "app"
    /\ pc = "start"
    /\ raw_data = NoData
    /\ spotify_file = [readable |-> FALSE, table |-> NoTable]
    /\ time_series_file = "absent"
    /\ processed_df = <<>>
    /\ audio_features = <<>>
    /\ fused_features = <<>>
    /\ latent_features = <<>>
    /\ graph = NoGraph
    /\ recommendations = <<>>
    /\ explanations = <<>>
    /\ leaderboard = <<>>
    /\ updates = 0
    /\ music_app_db = NoRows
    /\ returned = NoCall

pipeline == <<variant, raw_data, processed_df, audio_features,
              fused_features, latent_features, graph, recommendations,
              explanations, leaderboard, updates, pc>>

\* the player is rendered
GetPlaybackState ==
    /\ music_app_db' = get_playback_state(music_app_db)
    /\ returned' = [op |-> "get_playback_state", ok |-> TRUE]
    /\ UNCHANGED <<pipeline, files>>

\* the user starts a track
StartPlayback ==
    /\ Len(music_app_db.recently_played) < MaxPlayed
    /\ \E t \in QueueTracks, now \in Nows(music_app_db) :
          music_app_db' = start_playback(music_app_db, t, now)
    /\ returned' = [op |-> "start_playback", ok |-> TRUE]
    /\ UNCHANGED <<pipeline, files>>

AddToQueue ==
    /\ Len(music_app_db.queue) < MaxQueue
    /\ \E t \in QueueTracks :
          music_app_db' = [music_app_db EXCEPT !.queue = push_back(@, t)]
    /\ returned' = [op |-> "add_to_queue", ok |-> TRUE]
    /\ UNCHANGED <<pipeline, files>>

SkipToNext ==
    LET state == get_playback_state(music_app_db)
    IN /\ \/ /\ state.queue = <<>>
             /\ music_app_db' = state
             /\ returned' = [op |-> "skip_to_next", ok |-> FALSE]
          \/ /\ state.queue # <<>>
             /\ Len(state.recently_played) < MaxPlayed
             /\ \E order \in QueueOrders(state.queue), now \in Nows(state) :
                   LET next_track == state.queue[order[1]]
                   IN music_app_db' =
                        start_playback(
                            [state EXCEPT !.queue =
                                reorder_queue(delete_from_queue(
                                    @, next_track.track_id))],
                            next_track.track_id, now)
             /\ returned' = [op |-> "skip_to_next", ok |-> TRUE]
       /\ UNCHANGED <<pipeline, files>>

SkipToPrevious ==
    LET state == get_playback_state(music_app_db)
    IN /\ \/ /\ state.recently_played = <<>>
             /\ music_app_db' = state
             /\ returned' = [op |-> "skip_to_previous", ok |-> FALSE]
          \/ /\ state.recently_played # <<>>
             /\ Len(state.recently_played) < MaxPlayed
             /\ Len(state.queue) < MaxQueue
             /\ \E i \in MostRecent(state.recently_played),
                   now \in Nows(state) :
                   LET prev_track == state.recently_played[i]
                       current == state.playback_state.current_track
                       queued ==
                           IF current # None
                           THEN [state EXCEPT !.queue =
                                    push_front(@, current[1])]
                           ELSE state
                   IN music_app_db' =
                        start_playback(queued, prev_track.track_id, now)
             /\ returned' = [op |-> "skip_to_previous", ok |-> TRUE]
       /\ UNCHANGED <<pipeline, files>>

\* toggle_shuffle: the shuffle flag, and with it a random permutation of
\* 0..n-1 as the positions of the rows taken by position
ToggleShuffle ==
    /\ \E shuffle_state \in BOOLEAN :
          LET db == IF music_app_db.playback_state.present
                    THEN [music_app_db EXCEPT
                             !.playback_state.shuffle = shuffle_state]
                    ELSE music_app_db
          IN IF shuffle_state
             THEN \E order \in QueueOrders(db.queue),
                     positions \in Perms(Len(db.queue)) :
                     music_app_db' =
                        [db EXCEPT !.queue =
                            [r \in DOMAIN db.queue |->
                                LET i == CHOOSE k \in DOMAIN order :
                                            order[k] = r
                                IN [db.queue[r] EXCEPT
                                       !.position = positions[i] - 1]]]
             ELSE music_app_db' = db
    /\ returned' = [op |-> "toggle_shuffle", ok |-> TRUE]
    /\ UNCHANGED <<pipeline, files>>

QueueNext ==
    \/ GetPlaybackState
    \/ StartPlayback
    \/ AddToQueue
    \/ SkipToNext
    \/ SkipToPrevious
    \/ ToggleShuffle

QueueSpec == QueueInit /\ [][QueueNext]_vars

(***************************************************************************)
(* Properties                                                              *)
(***************************************************************************)
GraphBuilt == pc \in {"graph", "recommended", "explained", "dashboard"}

Recommended == pc \in {"recommended", "explained", "dashboard"}

Explained == pc \in {"explained", "dashboard"}

\* rows i and j are of one user, i not later than j, and no row of the
\* user lies strictly between them in time
ConsecutiveOfUser(df, i, j) ==
    /\ i # j
    /\ df[i].user_id = df[j].user_id
    /\ df[i].timestamp <= df[j].timestamp
    /\ ~ \E k \in DOMAIN df :
            /\ df[k].user_id = df[i].user_id
            /\ df[i].timestamp < df[k].timestamp
            /\ df[k].timestamp < df[j].timestamp

\* C1: in the table preprocess_data returns, two consecutive rows of a user
\* that are at most 300 seconds apart (300 included) have the same
\* session_id, and when they are more than 300 seconds apart the later
\* row's session_id is the earlier row's plus exactly 1.
Thm_C1 ==
    \A i, j \in DOMAIN processed_df :
        ConsecutiveOfUser(processed_df, i, j) =>
            LET gap == processed_df[j].timestamp - processed_df[i].timestamp
            IN /\ gap <= 300 =>
                    processed_df[j].session_id = processed_df[i].session_id
               /\ gap > 300 =>
                    processed_df[j].session_id
                        = processed_df[i].session_id + 1

\* a returned table in which one user has a gap of exactly 300 seconds
\* followed by a longer one
Wit_C1 ==
    /\ pc = "preprocessed"
    /\ \E i, j, k \in DOMAIN processed_df :
          /\ ConsecutiveOfUser(processed_df, i, j)
          /\ ConsecutiveOfUser(processed_df, j, k)
          /\ processed_df[j].timestamp - processed_df[i].timestamp = 300
          /\ processed_df[k].timestamp - processed_df[j].timestamp > 300

\* C2: session ids are computed for every user on its own: the earliest
\* row of every user has session_id 0 whatever the other users' rows are,
\* and along a user's rows in timestamp order session_id never decreases.
Thm_C2 ==
    \A i \in DOMAIN processed_df :
        /\ (\A k \in DOMAIN processed_df :
               processed_df[k].user_id = processed_df[i].user_id
                   => processed_df[i].timestamp <= processed_df[k].timestamp)
             => processed_df[i].session_id = 0
        /\ \A j \in DOMAIN processed_df :
               /\ processed_df[j].user_id = processed_df[i].user_id
               /\ processed_df[i].timestamp <= processed_df[j].timestamp
               => processed_df[i].session_id <= processed_df[j].session_id

\* a returned table of two users in which the second user's first row
\* comes more than 300 seconds after the first user's last row and is in
\* session 0
Wit_C2 ==
    /\ pc = "preprocessed"
    /\ \E i, j \in DOMAIN processed_df :
          /\ i + 1 = j
          /\ processed_df[i].user_id < processed_df[j].user_id
          /\ processed_df[j].timestamp - processed_df[i].timestamp > 300
          /\ processed_df[j].session_id = 0

\* the weight table of the specification, in hundredths
TableWeight(action) ==
    IF action = "skip" THEN 50
    ELSE IF action = "like" THEN 150
    ELSE IF action = "playlist_add" THEN 120
    ELSE 100

Thm_C4 ==
    GraphBuilt =>
        /\ Len(graph.weighted_edges) = Len(graph.edges)
        /\ \A i \in DOMAIN graph.edges :
              /\ graph.weighted_edges[i][1] = graph.edges[i][1]
              /\ graph.weighted_edges[i][2] = graph.edges[i][2]
              /\ 10 * graph.weighted_edges[i][3] = 12 * graph.edges[i][3]
              /\ graph.weighted_edges[i][3] \in {120, 60, 180, 144}

\* a graph whose raw edges hold the weights 0.5, 1.5 and 1.2
Wit_C4 ==
    /\ pc = "graph"
    /\ {50, 150, 120} \subseteq {graph.edges[i][3] : i \in DOMAIN graph.edges}

\* the artist an edge is scored under
ArtistOf(g, track) ==
    IF \E k \in DOMAIN g.track_to_artist : g.track_to_artist[k][1] = track
    THEN LET k == CHOOSE x \in DOMAIN g.track_to_artist :
                      g.track_to_artist[x][1] = track
         IN g.track_to_artist[k][2]
    ELSE "Unknown Artist"

EdgesOf(g, artist) ==
    SelectSeq(g.weighted_edges, LAMBDA e : ArtistOf(g, e[2]) = artist)

ScoredArtists(g) ==
    {ArtistOf(g, g.weighted_edges[i][2]) : i \in DOMAIN g.weighted_edges}

\* C5: the leaderboard holds one entry per artist, whose score is the sum
\* of the weights of the weighted edges whose track maps to the artist
\* through track_to_artist, an edge whose track has no entry counting for
\* the artist "Unknown Artist".
Thm_C5 ==
    pc = "dashboard" =>
        /\ {leaderboard[i][1] : i \in DOMAIN leaderboard}
               = ScoredArtists(graph)
        /\ Len(leaderboard) = Cardinality(ScoredArtists(graph))
        /\ \A i \in DOMAIN leaderboard :
              LET es == EdgesOf(graph, leaderboard[i][1])
              IN leaderboard[i][2] = Sum([k \in DOMAIN es |-> es[k][3]])

\* a leaderboard in which "Unknown Artist" sums two edges of tracks without
\* an entry and a named artist sums two edges too
Wit_C5 ==
    /\ pc = "dashboard"
    /\ \E a \in ScoredArtists(graph) :
          a # "Unknown Artist" /\ Len(EdgesOf(graph, a)) >= 2
    /\ Len(SelectSeq(graph.weighted_edges,
                     LAMBDA e : ~ DictHas(graph.track_to_artist, e[2]))) >= 2
    /\ Len(leaderboard) >= 2

\* the place of the first weighted edge scored under the artist
FirstSeen(g, artist) ==
    CHOOSE i \in DOMAIN g.weighted_edges :
        /\ ArtistOf(g, g.weighted_edges[i][2]) = artist
        /\ \A k \in 1..(i - 1) :
              ArtistOf(g, g.weighted_edges[k][2]) # artist

\* C6: the leaderboard is sorted by descending score, and two artists of
\* equal score come in the order in which the weighted edges first met
\* them.
Thm_C6 ==
    pc = "dashboard" =>
        \A i, j \in DOMAIN leaderboard :
            i < j =>
                /\ leaderboard[i][2] >= leaderboard[j][2]
                /\ leaderboard[i][2] = leaderboard[j][2] =>
                      FirstSeen(graph, leaderboard[i][1])
                          < FirstSeen(graph, leaderboard[j][1])

\* a leaderboard of three artists, the last two of equal score and the
\* first one met last
Wit_C6 ==
    /\ pc = "dashboard"
    /\ Len(leaderboard) = 3
    /\ leaderboard[1][2] > leaderboard[2][2]
    /\ leaderboard[2][2] = leaderboard[3][2]
    /\ FirstSeen(graph, leaderboard[1][1])
           > FirstSeen(graph, leaderboard[3][1])

Thm_C8 ==
    Recommended => DOMAIN recommendations = graph.nodes.users

\* two users recommended different tracks
Wit_C8 ==
    /\ pc = "recommended"
    /\ Cardinality(graph.nodes.users) = 2
    /\ \E u, w \in DOMAIN recommendations :
          recommendations[u] # recommendations[w]

\* C9: the keys of the map generate_explanations returns are users whose
\* recommendation is not null: a user mapped to None has no explanation.
Claim_C9 ==
    Explained =>
        DOMAIN explanations
            \subseteq {u \in DOMAIN recommendations :
                          recommendations[u] # None}

\* C10: adaptive_recommendations maps every user of the graph to None when
\* latent_features has no track, and to a key of latent_features when it
\* has one.
Thm_C10 ==
    Recommended =>
        \A u \in graph.nodes.users :
            /\ u \in DOMAIN recommendations
            /\ latent_features = <<>> => recommendations[u] = None
            /\ latent_features # <<>> =>
                  /\ recommendations[u] # None
                  /\ DictHas(latent_features, recommendations[u][1])

\* users recommended from an empty candidate set by the copy that draws
\* the track at random
Wit_C10 ==
    /\ pc = "recommended"
    /\ variant = "app"
    /\ latent_features = <<>>
    /\ Cardinality(graph.nodes.users) = 2

(***************************************************************************)
(* C11: preprocess_data returns exactly one row for each interaction that  *)
(* has no missing field: none is dropped and none is duplicated by a join. *)
(* The left joins on track_id repeat a row once per metadata row of its    *)
(* track, so the statement fails on a metadata table that lists a          *)
(* track_id twice.                                                         *)
(***************************************************************************)
SameEvent(row, e) ==
    /\ row.user_id = e.user_id
    /\ row.track_id = e.track_id
    /\ row.action = e.action
    /\ row.timestamp = e.timestamp

Claim_C11 ==
    pc = "preprocessed" =>
        LET valid == SelectSeq(raw_data.interactions,
                               LAMBDA e : e.action # NaN)
        IN /\ Len(processed_df) = Len(valid)
           /\ \A j \in DOMAIN valid :
                 Cardinality({i \in DOMAIN processed_df :
                                 SameEvent(processed_df[i], valid[j])})
                   = Cardinality({k \in DOMAIN valid : valid[k] = valid[j]})

(***************************************************************************)
(* C12: every row preprocess_data returns has an artist: a row whose track *)
(* has no usable metadata row carries a placeholder.  The copy in          *)
(* src/app.py has no backfill, so the statement fails there.               *)
(***************************************************************************)
Claim_C12 ==
    pc = "preprocessed" =>
        \A i \in DOMAIN processed_df : processed_df[i].artists # NaN

(***************************************************************************)
(* C13: the context a row carries is that of the nearest record of the     *)
(* same user within one minute: it comes from a record of the row's user   *)
(* at most 60 s away than which no record of that user is strictly nearer; *)
(* a row whose user has no record within 60 s carries no context; a record *)
(* of another user is never attached.  The records are those that survive  *)
(* the removal of incomplete records.                                      *)
(***************************************************************************)
Dist(row, r) ==
    IF row.timestamp >= r.timestamp THEN row.timestamp - r.timestamp
    ELSE r.timestamp - row.timestamp

Thm_C13 ==
    LET records == SelectSeq(raw_data.context, LAMBDA r : r.mood # None)
    IN \A i \in DOMAIN processed_df :
        LET row == processed_df[i]
            own == {j \in DOMAIN records :
                       records[j].user_id = row.user_id}
        IN /\ row.mood # None =>
                \E j \in own :
                    /\ Dist(row, records[j]) <= 60
                    /\ records[j].mood = row.mood
                    /\ \A k \in own :
                          Dist(row, records[k]) >= Dist(row, records[j])
           /\ (\A j \in own : Dist(row, records[j]) > 60) =>
                row.mood = None

\* the nearest record lies after the interaction, a farther one of the same
\* user lies before it within the minute, and one of another user lies at
\* the interaction itself
Wit_C13 ==
    /\ pc = "preprocessed"
    /\ raw_data.context = <<Ctx(1, 40, Some(20)), Ctx(1, 110, Some(80))>>
    /\ \E i \in DOMAIN processed_df :
          /\ processed_df[i].user_id = 1
          /\ processed_df[i].timestamp = 100
          /\ processed_df[i].mood = Some(80)
    /\ \E i \in DOMAIN processed_df :
          /\ processed_df[i].user_id = 2
          /\ processed_df[i].mood = None

(***************************************************************************)
(* C14: the node sets of the graph are exactly the distinct user_id,       *)
(* track_id and artist values of the processed rows, and every edge joins  *)
(* a user of nodes.users to a track of nodes.tracks.                       *)
(***************************************************************************)
Thm_C14 ==
    GraphBuilt =>
        /\ graph.nodes.users =
              {processed_df[i].user_id : i \in DOMAIN processed_df}
        /\ graph.nodes.tracks =
              {processed_df[i].track_id : i \in DOMAIN processed_df}
        /\ graph.nodes.artists =
              {processed_df[i].artists : i \in DOMAIN processed_df}
        /\ \A e \in DOMAIN graph.edges :
              /\ graph.edges[e][1] \in graph.nodes.users
              /\ graph.edges[e][2] \in graph.nodes.tracks

\* three rows about two tracks, and a metadata table with a track no row
\* is about
Wit_C14 ==
    /\ GraphBuilt
    /\ Len(processed_df) = 3
    /\ Cardinality(graph.nodes.tracks) = 2
    /\ \E i \in DOMAIN raw_data.tracks.rows :
          raw_data.tracks.rows[i].track_id \notin graph.nodes.tracks

(***************************************************************************)
(* C15: track_to_artist is built from the metadata alone: its keys are the *)
(* track_ids of the metadata table whatever the processed rows are, so a   *)
(* track without an interaction is mapped too, and each track maps to an   *)
(* artist the metadata gives for it.                                       *)
(***************************************************************************)
Thm_C15 ==
    GraphBuilt =>
        LET rows == raw_data.tracks.rows
        IN /\ Range(DictKeys(graph.track_to_artist)) =
                 {rows[i].track_id : i \in DOMAIN rows}
           /\ \A t \in Range(DictKeys(graph.track_to_artist)) :
                 DictGet(graph.track_to_artist, t, Absent) \in
                     {rows[i].artists :
                         i \in {j \in DOMAIN rows : rows[j].track_id = t}}

\* a mapped track that no processed row is about, and a processed row
\* whose track the metadata does not list
Wit_C15 ==
    /\ GraphBuilt
    /\ \E t \in Range(DictKeys(graph.track_to_artist)) :
          t \notin graph.nodes.tracks
    /\ \E t \in graph.nodes.tracks :
          t \notin Range(DictKeys(graph.track_to_artist))

(***************************************************************************)
(* C16: fuse_features returns a mapping with exactly the track_ids of      *)
(* audio_features; each vector is the track's original features plus one  *)
(* entry mood_factor, the same for every track: the mean mood of the       *)
(* context records, or 0.5 when there is no context record.  The mapping   *)
(* it is given stays as it was.                                            *)
(***************************************************************************)
MoodFactor(vector) == vector[Len(vector)][2]

FusedFrom(features, fused, context_df) ==
    LET moods == SelectSeq(context_df, LAMBDA r : r.mood # None)
    IN /\ Len(fused) = Len(features)
       /\ \A i \in DOMAIN fused :
             LET m == MoodFactor(fused[i][2])
             IN /\ fused[i][1] = features[i][1]
                /\ fused[i][2] =
                      Append(features[i][2], <<"mood_factor", m>>)
                /\ \A j \in DOMAIN fused : MoodFactor(fused[j][2]) = m
                /\ context_df = <<>> => m = Some(50)
                /\ moods # <<>> =>
                      /\ m # None
                      /\ m[1] * Len(moods) =
                            Sum([k \in DOMAIN moods |-> moods[k].mood[1]])

Thm_C16 ==
    [][(pc = "audio" /\ pc' = "fused") =>
          /\ audio_features' = audio_features
          /\ FusedFrom(audio_features, fused_features', raw_data.context)]_vars

\* two tracks fused with the mean of two different moods
Wit_C16 ==
    /\ pc = "fused"
    /\ Len(audio_features) = 2
    /\ raw_data.context = <<Ctx(1, 40, Some(20)), Ctx(1, 110, Some(80))>>
    /\ \A i \in DOMAIN fused_features :
          DictGet(fused_features[i][2], "mood_factor", None) = Some(50)

(***************************************************************************)
(* C17: extract_latent_features returns the track_ids and the feature      *)
(* names it is given, each value being the given value times 0.8,          *)
(* mood_factor included.                                                   *)
(***************************************************************************)
Thm_C17 ==
    pc \in {"latent", "graph", "recommended", "explained", "dashboard"} =>
        /\ Len(latent_features) = Len(fused_features)
        /\ \A i \in DOMAIN latent_features :
              /\ latent_features[i][1] = fused_features[i][1]
              /\ Len(latent_features[i][2]) = Len(fused_features[i][2])
              /\ \A k \in DOMAIN latent_features[i][2] :
                    LET l == latent_features[i][2][k]
                        f == fused_features[i][2][k]
                    IN /\ l[1] = f[1]
                       /\ (f[2] = None) = (l[2] = None)
                       /\ f[2] # None => 10 * l[2][1] = 8 * f[2][1]

\* two tracks with an energy of 0.5 and a mood_factor of 0.2
Wit_C17 ==
    /\ pc = "latent"
    /\ Len(latent_features) = 2
    /\ \A i \in DOMAIN latent_features :
          /\ DictGet(fused_features[i][2], "mood_factor", None) = Some(20)
          /\ DictGet(latent_features[i][2], "mood_factor", None) = Some(16)
          /\ DictGet(latent_features[i][2], "energy", None) = Some(40)

Claim_C19 ==
    [][(pc = "start" /\ time_series_file' = "failed") =>
          /\ pc' = "ingested"
          /\ Len(raw_data'.interactions) = NumInteractions
          /\ Len(raw_data'.context) = NumInteractions]_vars

(***************************************************************************)
(* C20: when the track metadata lacks the artists or the track_name        *)
(* column, preprocess_data does not fail: it writes a placeholder into the *)
(* missing column and the rows it returns carry the placeholder.  Line 154 *)
(* of src/pipeline.py reads tracks_df['artists'] before the columns are    *)
(* added, so the statement fails there for the artists column.             *)
(***************************************************************************)
Claim_C20 ==
    [][(/\ pc = "ingested"
        /\ "track_id" \in raw_data.tracks.columns
        /\ ~ ({"artists", "track_name"} \subseteq raw_data.tracks.columns)) =>
          /\ pc' = "preprocessed"
          /\ \A i \in DOMAIN processed_df' :
                (\E k \in DOMAIN raw_data.tracks.rows :
                    raw_data.tracks.rows[k].track_id
                        = processed_df'[i].track_id) =>
                  /\ "artists" \notin raw_data.tracks.columns =>
                        processed_df'[i].artists = Placeholder("artists")
                  /\ "track_name" \notin raw_data.tracks.columns =>
                        processed_df'[i].track_name
                            = Placeholder("track_name")]_vars

(***************************************************************************)
(* C21: a missing metadata source is not fatal for a run: with the empty   *)
(* track table the stages from preprocess_data to compute_leaderboard      *)
(* complete without raising and every user is mapped to a null             *)
(* recommendation.  src/pipeline.py raises in preprocess_data (line 154)   *)
(* and src/app.py in build_interaction_graph, which reads the track_id     *)
(* column of the empty table, so the statement fails in both copies.       *)
(***************************************************************************)
Claim_C21 ==
    (raw_data.tracks = NoTable /\ raw_data.interactions # <<>>) =>
        /\ pc # "error"
        /\ Recommended =>
              \A u \in DOMAIN recommendations : recommendations[u] = None

(***************************************************************************)
(* C22: end to end, for one track (t, A), one interaction of user u on t   *)
(* with action a and one context record of u at the same timestamp: the    *)
(* processed table has exactly one row, of session 0; weighted_edges is    *)
(* the single edge (u, t, w(a) x 1.2); the leaderboard is the single entry *)
(* (A, w(a) x 1.2); for a = like the weight is 1.8.                        *)
(***************************************************************************)
EndToEndCase ==
    /\ Len(raw_data.interactions) = 1
    /\ Len(raw_data.context) = 1
    /\ Len(raw_data.tracks.rows) = 1
    /\ raw_data.tracks.columns = FullColumns
    /\ raw_data.tracks.rows[1].artists # NaN
    /\ raw_data.interactions[1].action # NaN
    /\ raw_data.interactions[1].track_id = raw_data.tracks.rows[1].track_id
    /\ raw_data.context[1].user_id = raw_data.interactions[1].user_id
    /\ raw_data.context[1].timestamp = raw_data.interactions[1].timestamp
    /\ raw_data.context[1].mood # None

Thm_C22 ==
    EndToEndCase =>
        LET e == raw_data.interactions[1]
            w == (TableWeight(e.action) * 12) \div 10
        IN /\ pc \notin {"start", "ingested"} =>
                /\ pc # "error"
                /\ Len(processed_df) = 1
                /\ processed_df[1].session_id = 0
           /\ GraphBuilt =>
                /\ graph.weighted_edges = <<(<<e.user_id, e.track_id, w>>)>>
                /\ e.action = "like" => graph.weighted_edges[1][3] = 180
           /\ pc = "dashboard" =>
                leaderboard = <<(<<raw_data.tracks.rows[1].artists, w>>)>>

\* the run of the like has delivered its leaderboard
Wit_C22 ==
    /\ EndToEndCase
    /\ pc = "dashboard"
    /\ raw_data.interactions[1].action = "like"
    /\ leaderboard = <<(<<"A", 180>>)>>
    /\ Len(processed_df) = 1

(***************************************************************************)
(* C23: a graph is never modified after construction: compute_leaderboard, *)
(* adaptive_recommendations, generate_explanations and a later build leave *)
(* its node sets, edges, weighted_edges and track_to_artist as they were,  *)
(* and computing weighted_edges leaves edges with the table weights.       *)
(***************************************************************************)
Thm_C23 ==
    [][GraphBuilt' =>
          /\ GraphBuilt => graph' = graph
          /\ \A e \in DOMAIN graph'.edges :
                graph'.edges[e][3] = TableWeight(processed_df'[e].action)]_vars

\* the graph has been read by every consumer, built again and read again
Wit_C23 ==
    /\ pc = "dashboard"
    /\ updates = MaxUpdates
    /\ DOMAIN explanations # {}
    /\ Len(graph.weighted_edges) >= 2
    /\ graph.weighted_edges # graph.edges

(***************************************************************************)
(* C24: the rows preprocess_data returns are ordered by (user_id,          *)
(* timestamp) ascending: the rows of one user are contiguous and within a  *)
(* user the timestamps never decrease, also after the track-genre join of  *)
(* the copy in src/app.py.                                                 *)
(***************************************************************************)
Thm_C24 ==
    \A i, j \in DOMAIN processed_df :
        i < j =>
            \/ processed_df[i].user_id < processed_df[j].user_id
            \/ /\ processed_df[i].user_id = processed_df[j].user_id
               /\ processed_df[i].timestamp <= processed_df[j].timestamp

\* rows of two users given in another order, one of them joined with two
\* metadata rows of its track and with their genres
Wit_C24 ==
    /\ pc = "preprocessed"
    /\ variant = "app"
    /\ \E i \in DOMAIN processed_df : processed_df[i].track_genre = "pop"
    /\ Len(processed_df) > Len(raw_data.interactions)
    /\ \E i, j \in DOMAIN raw_data.interactions :
          /\ i < j
          /\ \/ raw_data.interactions[j].user_id
                  < raw_data.interactions[i].user_id
             \/ raw_data.interactions[j].timestamp
                  < raw_data.interactions[i].timestamp

(***************************************************************************)
(* C25: the leaderboard conserves weight: the sum of its scores equals the *)
(* sum of the weights of the weighted edges, every listed artist has a     *)
(* contributing edge, and no artist is listed twice.                       *)
(***************************************************************************)
Thm_C25 ==
    pc = "dashboard" =>
        /\ Sum([i \in DOMAIN leaderboard |-> leaderboard[i][2]])
             = Sum([e \in DOMAIN graph.weighted_edges |->
                       graph.weighted_edges[e][3]])
        /\ \A i \in DOMAIN leaderboard :
              \E e \in DOMAIN graph.weighted_edges :
                  DictGet(graph.track_to_artist, graph.weighted_edges[e][2],
                          "Unknown Artist") = leaderboard[i][1]
        /\ \A i, j \in DOMAIN leaderboard :
              leaderboard[i][1] = leaderboard[j][1] => i = j

\* a leaderboard of two artists, one with two edges, and of the unknown
\* artist
Wit_C25 ==
    /\ pc = "dashboard"
    /\ Len(leaderboard) = 2
    /\ Len(graph.weighted_edges) = 3
    /\ \E i \in DOMAIN leaderboard : leaderboard[i][1] = "Unknown Artist"

(***************************************************************************)
(* C26: in a run, every artist of the leaderboard is one of the graph's    *)
(* artist nodes: the artist a track is scored under is the artist the      *)
(* processed rows carry for the track.  track_to_artist is read from the   *)
(* unfiltered metadata and the rows' artists from the metadata without its *)
(* incomplete rows, so the statement fails for a track whose metadata row  *)
(* is incomplete.                                                          *)
(***************************************************************************)
Claim_C26 ==
    pc = "dashboard" =>
        \A i \in DOMAIN leaderboard :
            leaderboard[i][1] \in graph.nodes.artists

(***************************************************************************)
(* C27: in load_ml_data_for_user, combining the user's rows with the       *)
(* general processed table loses no interaction of the pipeline and adds   *)
(* no anonymous one: every row of the general table yields an edge, every  *)
(* edge's user_id is a real user identifier, and the recommendation map    *)
(* covers exactly the users that have interactions.  The user's rows have  *)
(* no user_id and the duplicates are dropped on (track_id, action), so the *)
(* statement fails.                                                        *)
(***************************************************************************)
Claim_C27 ==
    GraphBuilt =>
        /\ \A i \in DOMAIN processed_df :
              \E e \in DOMAIN graph.edges :
                  /\ graph.edges[e][1] = processed_df[i].user_id
                  /\ graph.edges[e][2] = processed_df[i].track_id
        /\ \A e \in DOMAIN graph.edges : graph.edges[e][1] # NaNUser
        /\ Recommended =>
              DOMAIN recommendations =
                  {processed_df[i].user_id : i \in DOMAIN processed_df}

(***************************************************************************)
(* C28: skip_to_next on a non-empty queue removes exactly one entry, the   *)
(* head: the queue is one entry shorter, the removed track is the current  *)
(* track and is playing, and the other entries keep their order, also when *)
(* a track_id is queued more than once; on an empty queue it returns       *)
(* failure and leaves the queue and the playback state as they were.  The  *)
(* DELETE is by track_id, so every entry of the head's track goes and the  *)
(* statement fails.                                                        *)
(***************************************************************************)
TracksInOrder(queue, order) == [i \in DOMAIN order |-> queue[order[i]].track_id]

Claim_C28 ==
    [][returned'.op = "skip_to_next" =>
          IF music_app_db.queue = <<>>
          THEN /\ ~ returned'.ok
               /\ music_app_db'.queue = <<>>
               /\ music_app_db'.playback_state.current_track
                    = music_app_db.playback_state.current_track
               /\ music_app_db'.playback_state.is_playing
                    = music_app_db.playback_state.is_playing
          ELSE /\ returned'.ok
               /\ Len(music_app_db'.queue) = Len(music_app_db.queue) - 1
               /\ \E o \in QueueOrders(music_app_db.queue),
                     n \in QueueOrders(music_app_db'.queue) :
                     /\ music_app_db'.playback_state.current_track =
                           Some(music_app_db.queue[o[1]].track_id)
                     /\ TracksInOrder(music_app_db'.queue, n) =
                           Tail(TracksInOrder(music_app_db.queue, o))
               /\ music_app_db'.playback_state.is_playing]_vars

(***************************************************************************)
(* C29: after any sequence of add_to_queue, skip_to_next, skip_to_previous *)
(* and toggle_shuffle calls the positions of the user's queue entries are  *)
(* pairwise distinct and form the range 0..n-1, n being the number of      *)
(* entries.  After skip_to_next has deleted two entries of one track the   *)
(* positions have a gap, so the statement fails.                           *)
(***************************************************************************)
Claim_C29 ==
    LET queue == music_app_db.queue
    IN /\ \A i, j \in DOMAIN queue :
             queue[i].position = queue[j].position => i = j
       /\ {queue[i].position : i \in DOMAIN queue} = 0..(Len(queue) - 1)

(***************************************************************************)
(* C30: skip_to_previous, called when at least two tracks have been        *)
(* started, makes the track played immediately before the current one the  *)
(* current track, not the current one again, and puts the track that was   *)
(* current at the head of the queue.  The most recent row of               *)
(* recently_played is the current track itself, so the statement fails.    *)
(***************************************************************************)
Claim_C30 ==
    [][(/\ returned'.op = "skip_to_previous"
        /\ Len(music_app_db.recently_played) >= 2
        /\ music_app_db.playback_state.current_track =
              Some(music_app_db.recently_played[
                      Len(music_app_db.recently_played)].track_id)) =>
          LET played == music_app_db.recently_played
              current == played[Len(played)].track_id
              before == played[Len(played) - 1].track_id
          IN /\ returned'.ok
             /\ music_app_db'.playback_state.current_track = Some(before)
             /\ \E i \in DOMAIN music_app_db'.queue :
                   /\ music_app_db'.queue[i].track_id = current
                   /\ music_app_db'.queue[i].position = 0]_vars

====
